---- MODULE Spec2Model ----
(***************************************************************************)
(* A model of the dnsrelay server: the DNS wire codec of core/data.py      *)
(* (bytes are sequences of 0..255, indexed from 0 as in Python), the Redis *)
(* cache of core/cache.py and the listener/handler of core/server.py.      *)
(***************************************************************************)
EXTENDS Integers, Sequences, FiniteSets, TLC

\* ------------------------------------------------------------------------
\* Python values and byte strings
\* ------------------------------------------------------------------------

\* The result of a Python call: a value, or the exception it raised.
Ok(v) == [exc |-> "", val |-> v]
Raise(e) == [exc |-> e, val |-> <<>>]

\* A Python argument with its runtime type (int has to_bytes, bytes has not).
PyInt(n) == [t |-> "int", v |-> n]
PyBytes(b) == [t |-> "bytes", v |-> b]

Min(a, b) == IF a < b THEN a ELSE b
Max(a, b) == IF a > b THEN a ELSE b

\* A slice bound of Python: negative counts from the end, then clamped.
Norm(i, n) == IF i < 0 THEN Max(n + i, 0) ELSE Min(i, n)

\* The bytes from position a up to, not including, position b.
Cut(bytes, a, b) == IF a >= b THEN <<>> ELSE SubSeq(bytes, a + 1, b)

\* data[lo:hi]
Slice(bytes, lo, hi) == Cut(bytes, Norm(lo, Len(bytes)), Norm(hi, Len(bytes)))

\* data[lo:]
SliceFrom(bytes, lo) == Slice(bytes, lo, Len(bytes))

\* data[:hi]
SliceTo(bytes, hi) == Slice(bytes, 0, hi)

\* data.find(0): index of the first zero byte, -1 when there is none.
Find0(bytes) ==
    IF \E i \in 1..Len(bytes) : bytes[i] = 0
    THEN (CHOOSE i \in 1..Len(bytes) :
             bytes[i] = 0 /\ \A j \in 1..(i - 1) : bytes[j] # 0) - 1
    ELSE -1

\* int(b.hex(), 16) of a non-empty byte string (the empty one is a ValueError,
\* raised where the call is made).
RECURSIVE IntFromHex(_)
IntFromHex(b) ==
    IF Len(b) = 0 THEN 0
    ELSE 256 * IntFromHex(SubSeq(b, 1, Len(b) - 1)) + b[Len(b)]

\* 0 <= n < 256^len: n.to_bytes(len, 'big') raises OverflowError otherwise.
RECURSIVE FitsBytes(_, _)
FitsBytes(n, len) ==
    IF len = 0 THEN n = 0 ELSE n >= 0 /\ FitsBytes(n \div 256, len - 1)

\* n.to_bytes(len, 'big') of an n that fits.
RECURSIVE ToBytes(_, _)
ToBytes(n, len) ==
    IF len = 0 THEN <<>>
    ELSE Append(ToBytes(n \div 256, len - 1), n % 256)

RECURSIVE BitAnd(_, _)
BitAnd(a, b) ==
    IF a = 0 \/ b = 0 THEN 0
    ELSE (a % 2) * (b % 2) + 2 * BitAnd(a \div 2, b \div 2)

RECURSIVE BitOr(_, _)
BitOr(a, b) ==
    IF a = 0 THEN b
    ELSE IF b = 0 THEN a
    ELSE Max(a % 2, b % 2) + 2 * BitOr(a \div 2, b \div 2)

RECURSIVE Pow2(_)
Pow2(n) == IF n = 0 THEN 1 ELSE 2 * Pow2(n - 1)

Shl(a, k) == a * Pow2(k)
Shr(a, k) == a \div Pow2(k)

\* ------------------------------------------------------------------------
\* core/RR_type.py, core/RR_class.py
\* ------------------------------------------------------------------------
RR_type_A == <<0, 1>>
RR_type_NS == <<0, 2>>
RR_type_CNAME == <<0, 5>>
RR_class_IN == <<0, 1>>

\* ------------------------------------------------------------------------
\* core/data.py: Header
\* ------------------------------------------------------------------------

\* Header.__init__
HeaderInit(ID, QR, Opcode, AA, TC, RD, RA, RCODE, Z, QDCOUNT, ANCOUNT, NSCOUNT, ARCOUNT) ==
    [ID |-> ToBytes(ID, 2),
     QR |-> IF QR = 0 THEN <<0>> ELSE <<1>>,
     Opcode |-> ToBytes(Opcode, 1),
     AA |-> ToBytes(AA, 1),
     TC |-> ToBytes(TC, 1),
     RD |-> IF RD = 0 THEN <<0>> ELSE <<1>>,
     RA |-> IF RA = 0 THEN <<0>> ELSE <<1>>,
     Z |-> ToBytes(Z, 1),
     RCODE |-> ToBytes(RCODE, 1),
     QDCOUNT |-> ToBytes(QDCOUNT, 2),
     ANCOUNT |-> ToBytes(ANCOUNT, 2),
     NSCOUNT |-> ToBytes(NSCOUNT, 2),
     ARCOUNT |-> ToBytes(ARCOUNT, 2)]

\* Header.from_bytes: data is message[0:12], possibly shorter.  int('', 16)
\* raises ValueError and data[2], data[3] raise IndexError, in source order.
HeaderFromBytes(bytes) ==
    IF Len(bytes) = 0 THEN Raise("ValueError")
    ELSE IF Len(bytes) < 4 THEN Raise("IndexError")
    ELSE IF Slice(bytes, 4, 6) = <<>> \/ Slice(bytes, 6, 8) = <<>>
            \/ Slice(bytes, 8, 10) = <<>> \/ Slice(bytes, 10, 12) = <<>>
    THEN Raise("ValueError")
    ELSE Ok(HeaderInit(
            IntFromHex(Slice(bytes, 0, 2)),
            BitAnd(Shr(bytes[3], 7), 1),
            BitAnd(Shr(bytes[3], 3), 15),
            BitAnd(Shr(bytes[3], 2), 1),
            BitAnd(Shr(bytes[3], 1), 1),
            BitAnd(bytes[3], 1),
            BitAnd(Shr(bytes[4], 7), 1),
            BitAnd(bytes[4], 15),
            BitAnd(Shr(bytes[4], 4), 7),
            IntFromHex(Slice(bytes, 4, 6)),
            IntFromHex(Slice(bytes, 6, 8)),
            IntFromHex(Slice(bytes, 8, 10)),
            IntFromHex(Slice(bytes, 10, 12))))

\* Header.get_bytes.  Python binds << tighter than &, and & tighter than |:
\* the Z term is (Z << 4) & 0x07, and RCODE is or-ed in unmasked.
HeaderGetBytes(h) ==
    h.ID
    \o <<BitOr(BitOr(BitOr(BitOr(
            BitAnd(Shl(h.QR[1], 7), 128),
            BitAnd(Shl(h.Opcode[1], 3), 120)),
            BitAnd(Shl(h.AA[1], 2), 4)),
            BitAnd(Shl(h.TC[1], 1), 2)),
            h.RD[1])>>
    \o <<BitOr(BitOr(
            BitAnd(Shl(h.RA[1], 7), 128),
            BitAnd(Shl(h.Z[1], 4), 7)),
            h.RCODE[1])>>
    \o h.QDCOUNT \o h.ANCOUNT \o h.NSCOUNT \o h.ARCOUNT

\* ------------------------------------------------------------------------
\* core/data.py: Question
\* ------------------------------------------------------------------------

\* Question.__init__
QuestionInit(QNAME, QTYPE, QCLASS) ==
    [QNAME |-> QNAME, QTYPE |-> QTYPE, QCLASS |-> QCLASS]

\* Question.from_bytes
QuestionFromBytes(bytes) ==
    [QNAME |-> SliceTo(bytes, -4),
     QTYPE |-> Slice(bytes, -4, -2),
     QCLASS |-> SliceFrom(bytes, -2)]

\* Question.get_bytes
QuestionGetBytes(q) == q.QNAME \o q.QTYPE \o q.QCLASS

\* '.'.join(name) on labels kept as their bytes (46 is '.').
RECURSIVE JoinDots(_)
JoinDots(name) ==
    IF Len(name) = 0 THEN <<>>
    ELSE IF Len(name) = 1 THEN name[1]
    ELSE name[1] \o <<46>> \o JoinDots(Tail(name))

\* bytes.decode('utf8') of a label: ASCII bytes decode to themselves; a byte
\* above 127 that is not part of a UTF-8 sequence raises.
IsAscii(b) == \A i \in 1..Len(b) : b[i] < 128

\* QNameLoop returning after the first label.
QNameLoopFirstLabel(QNAME, start, length, name) ==
    IF length = 0 THEN Ok(JoinDots(name))
    ELSE Ok(Slice(QNAME, start + 1, start + length + 1))

\* Question.get_QNAME: the while loop, with QNAME[start] raising IndexError
\* past the end.
RECURSIVE QNameLoop(_, _, _, _)
QNameLoop(QNAME, start, length, name) ==
    IF length = 0 THEN Ok(JoinDots(name))
    ELSE IF ~IsAscii(Slice(QNAME, start + 1, start + length + 1))
    THEN Raise("UnicodeDecodeError")
    ELSE IF start + length + 1 >= Len(QNAME) THEN Raise("IndexError")
    ELSE QNameLoop(QNAME, start + length + 1, QNAME[start + length + 2],
                   Append(name, Slice(QNAME, start + 1, start + length + 1)))

get_QNAME(q) ==
    IF Len(q.QNAME) = 0 THEN Raise("IndexError")
    ELSE QNameLoop(q.QNAME, 0, q.QNAME[1], <<>>)

\* ------------------------------------------------------------------------
\* core/data.py: ResourceRecord
\* ------------------------------------------------------------------------

\* ResourceRecord.__init__: TYPE, CLASS, TTL and RDLENGTH must be ints
\* (to_bytes is an int method) that fit their width.
ResourceRecordInit(NAME, TYPE, CLASS, TTL, RDLENGTH, RDATA) ==
    IF TYPE.t # "int" THEN Raise("AttributeError")
    ELSE IF ~FitsBytes(TYPE.v, 2) THEN Raise("OverflowError")
    ELSE IF CLASS.t # "int" THEN Raise("AttributeError")
    ELSE IF ~FitsBytes(CLASS.v, 2) THEN Raise("OverflowError")
    ELSE IF TTL.t # "int" THEN Raise("AttributeError")
    ELSE IF ~FitsBytes(TTL.v, 4) THEN Raise("OverflowError")
    ELSE IF RDLENGTH.t # "int" THEN Raise("AttributeError")
    ELSE IF ~FitsBytes(RDLENGTH.v, 2) THEN Raise("OverflowError")
    ELSE Ok([NAME |-> NAME,
             TYPE |-> ToBytes(TYPE.v, 2),
             CLASS |-> ToBytes(CLASS.v, 2),
             TTL |-> ToBytes(TTL.v, 4),
             RDLENGTH |-> ToBytes(RDLENGTH.v, 2),
             RDATA |-> RDATA])

\* ResourceRecord.from_bytes
ResourceRecordFromBytes(bytes, RDLENGTH) ==
    IF Slice(bytes, -(RDLENGTH + 10), -(RDLENGTH + 8)) = <<>>
       \/ Slice(bytes, -(RDLENGTH + 8), -(RDLENGTH + 6)) = <<>>
       \/ Slice(bytes, -(RDLENGTH + 6), -(RDLENGTH + 2)) = <<>>
    THEN Raise("ValueError")
    ELSE ResourceRecordInit(
             SliceTo(bytes, -(RDLENGTH + 10)),
             PyInt(IntFromHex(Slice(bytes, -(RDLENGTH + 10), -(RDLENGTH + 8)))),
             PyInt(IntFromHex(Slice(bytes, -(RDLENGTH + 8), -(RDLENGTH + 6)))),
             PyInt(IntFromHex(Slice(bytes, -(RDLENGTH + 6), -(RDLENGTH + 2)))),
             PyInt(RDLENGTH),
             SliceFrom(bytes, -RDLENGTH))

\* ResourceRecord.get_bytes
ResourceRecordGetBytes(rr) ==
    rr.NAME \o rr.TYPE \o rr.CLASS \o rr.TTL \o rr.RDLENGTH \o rr.RDATA

\* ------------------------------------------------------------------------
\* core/data.py: Message
\* ------------------------------------------------------------------------

\* Message.__init__
MessageInit(header, questions, answers, authorities, additionals) ==
    [Header |-> header,
     Questions |-> questions,
     Answers |-> answers,
     Authorities |-> authorities,
     Additionals |-> additionals]

\* Message._parse_question: the list and the index after it.  find and
\* slicing never raise, so neither does this.
QuestionEnd(message, index) == index + Find0(SliceFrom(message, index)) + 5

RECURSIVE ParseQuestionLoop(_, _, _, _)
ParseQuestionLoop(message, index, dest, count) ==
    IF count = 0 THEN [dest |-> dest, index |-> index]
    ELSE ParseQuestionLoop(
             message, QuestionEnd(message, index),
             Append(dest, QuestionFromBytes(
                              Slice(message, index, QuestionEnd(message, index)))),
             count - 1)

_parse_question(message, start, count) ==
    ParseQuestionLoop(message, start, <<>>, count)

\* Message._parse_rr: where TYPE starts in the record at index.
TypeStart(message, index) ==
    IF BitAnd(Shr(message[index + 1], 6), 3) = 3
    THEN index + 2
    ELSE index + Find0(SliceFrom(message, index)) + 1

\* Message._parse_rr: Ok of the list and the index after it, or the
\* exception of message[index], of int('', 16) or of
\* ResourceRecord.from_bytes.
RECURSIVE ParseRRLoop(_, _, _, _)
RECURSIVE ParseRRAt(_, _, _, _, _)
RECURSIVE ParseRROfLength(_, _, _, _, _, _)
RECURSIVE ParseRRNext(_, _, _, _, _)

ParseRRLoop(message, index, dest, count) ==
    IF count = 0 THEN Ok([dest |-> dest, index |-> index])
    ELSE IF index >= Len(message) THEN Raise("IndexError")
    ELSE ParseRRAt(message, index, dest, count, TypeStart(message, index))

ParseRRAt(message, index, dest, count, TYPE_start) ==
    IF Slice(message, TYPE_start + 8, TYPE_start + 10) = <<>>
    THEN Raise("ValueError")
    ELSE ParseRROfLength(
             message, index, dest, count, TYPE_start,
             IntFromHex(Slice(message, TYPE_start + 8, TYPE_start + 10)))

ParseRROfLength(message, index, dest, count, TYPE_start, RDLENGTH) ==
    ParseRRNext(message, dest, count, TYPE_start + RDLENGTH + 10,
                ResourceRecordFromBytes(
                    Slice(message, index, TYPE_start + RDLENGTH + 10),
                    RDLENGTH))

ParseRRNext(message, dest, count, next_start, rr) ==
    IF rr.exc # "" THEN Raise(rr.exc)
    ELSE ParseRRLoop(message, next_start, Append(dest, rr.val), count - 1)

_parse_rr(message, start, count) == ParseRRLoop(message, start, <<>>, count)

\* Message.from_bytes, section after section; an exception of a section
\* ends it.
FromBytesAdditionals(header, qs, an, ns, ar) ==
    IF ar.exc # "" THEN Raise(ar.exc)
    ELSE Ok(MessageInit(header, qs.dest, an.val.dest, ns.val.dest,
                        ar.val.dest))

FromBytesAuthorities(bytes, header, qs, an, ns) ==
    IF ns.exc # "" THEN Raise(ns.exc)
    ELSE FromBytesAdditionals(
             header, qs, an, ns,
             _parse_rr(bytes, ns.val.index, IntFromHex(header.ARCOUNT)))

FromBytesAnswers(bytes, header, qs, an) ==
    IF an.exc # "" THEN Raise(an.exc)
    ELSE FromBytesAuthorities(
             bytes, header, qs, an,
             _parse_rr(bytes, an.val.index, IntFromHex(header.NSCOUNT)))

FromBytesQuestions(bytes, header, qs) ==
    FromBytesAnswers(bytes, header, qs,
                     _parse_rr(bytes, qs.index, IntFromHex(header.ANCOUNT)))

FromBytesHeader(bytes, h) ==
    IF h.exc # "" THEN Raise(h.exc)
    ELSE FromBytesQuestions(
             bytes, h.val,
             _parse_question(bytes, 12, IntFromHex(h.val.QDCOUNT)))

MessageFromBytes(bytes) == FromBytesHeader(bytes, HeaderFromBytes(Slice(bytes, 0, 12)))

RECURSIVE ConcatQuestions(_)
ConcatQuestions(qs) ==
    IF Len(qs) = 0 THEN <<>>
    ELSE QuestionGetBytes(Head(qs)) \o ConcatQuestions(Tail(qs))

RECURSIVE ConcatRRs(_)
ConcatRRs(rrs) ==
    IF Len(rrs) = 0 THEN <<>>
    ELSE ResourceRecordGetBytes(Head(rrs)) \o ConcatRRs(Tail(rrs))

\* Message.get_bytes
MessageGetBytes(m) ==
    HeaderGetBytes(m.Header) \o ConcatQuestions(m.Questions)
    \o ConcatRRs(m.Answers) \o ConcatRRs(m.Authorities)
    \o ConcatRRs(m.Additionals)

\* ------------------------------------------------------------------------
\* util/ip.py
\* ------------------------------------------------------------------------

\* get_bytes_from_ipv4, on the four decimal fields of the dotted address.
get_bytes_from_ipv4(ip) ==
    ToBytes(ip[1], 1) \o ToBytes(ip[2], 1) \o ToBytes(ip[3], 1)
    \o ToBytes(ip[4], 1)

\* ------------------------------------------------------------------------
\* core/cache.py: RedisCache over one Redis database.  A key holds the hash
\* field 'A' and an expiry: -1 for none, else the seconds left.
\* ------------------------------------------------------------------------

\* Python's None (no byte string equals it).
None == <<-1>>

\* RedisCache.get(key, 'A'): HGET
CacheGet(c, key) == IF key \in DOMAIN c THEN c[key].A ELSE None

\* RedisCache.put(key, 'A', value): HSET creates the key without expiry and
\* keeps the expiry of an existing key.
CachePut(c, key, value) ==
    IF key \in DOMAIN c THEN [c EXCEPT ![key].A = value]
    ELSE c @@ (key :> [A |-> value, ttl |-> -1])

\* RedisCache.get_ttl(key): TTL is -2 for a missing key, -1 for no expiry.
CacheGetTtl(c, key) == IF key \in DOMAIN c THEN c[key].ttl ELSE -2

\* RedisCache.set_ttl(key, ttl): PERSIST for -1, else EXPIRE, which deletes
\* the key when the timeout is not positive.
CacheSetTtl(c, key, ttl) ==
    IF key \notin DOMAIN c THEN c
    ELSE IF ttl = -1 THEN [c EXCEPT ![key].ttl = -1]
    ELSE IF ttl <= 0 THEN [k \in DOMAIN c \ {key} |-> c[k]]
    ELSE [c EXCEPT ![key].ttl = ttl]

\* One second passes in the store: expiries count down, expired keys go.
CacheTick(c) ==
    [k \in {n \in DOMAIN c : c[n].ttl # 1} |->
        IF c[k].ttl > 1 THEN [c[k] EXCEPT !.ttl = c[k].ttl - 1] ELSE c[k]]

\* ------------------------------------------------------------------------
\* Datagrams the clients and the upstream resolver send
\* ------------------------------------------------------------------------

\* The address that blocks a name.
Sentinel == <<0, 0, 0, 0>>

\* "a", "b", "c" and "d" as dotted names and as uncompressed wire names.
NameA == <<97>>
NameB == <<98>>
NameC == <<99>>
NameD == <<100>>
WireA == <<1, 97, 0>>
WireB == <<1, 98, 0>>
WireC == <<1, 99, 0>>
WireD == <<1, 100, 0>>

\* A compression pointer to offset 12.
Ptr == <<192, 12>>

Hdr(id, flags, qd, an, ns, ar) ==
    id \o flags \o ToBytes(qd, 2) \o ToBytes(an, 2) \o ToBytes(ns, 2)
    \o ToBytes(ar, 2)

Qn(qname, qtype) == qname \o qtype \o RR_class_IN

RR(name, type, ttl, rdata) ==
    name \o type \o RR_class_IN \o ttl \o ToBytes(Len(rdata), 2) \o rdata

\* A queries: for the blocked name (plain, and with every header flag,
\* Z and RCODE set), for the unknown name and for the name with a static
\* address.
QA_c == Hdr(<<171, 204>>, <<1, 0>>, 1, 0, 0, 0) \o Qn(WireC, RR_type_A)
QA_a == Hdr(<<171, 205>>, <<1, 0>>, 1, 0, 0, 0) \o Qn(WireA, RR_type_A)
QA_a_flags == Hdr(<<18, 52>>, <<127, 117>>, 1, 0, 0, 0) \o Qn(WireA, RR_type_A)
QA_b == Hdr(<<171, 206>>, <<1, 0>>, 1, 0, 0, 0) \o Qn(WireB, RR_type_A)

QA_d == Hdr(<<171, 211>>, <<1, 0>>, 1, 0, 0, 0) \o Qn(WireD, RR_type_A)

\* An NS query for the blocked name.
QNS_a == Hdr(<<171, 207>>, <<1, 0>>, 1, 0, 0, 0) \o Qn(WireA, RR_type_NS)

\* A query of two questions: NS for the blocked name, then A for it.
QNS_a_then_A ==
    Hdr(<<171, 212>>, <<1, 0>>, 2, 0, 0, 0) \o SliceFrom(QNS_a, 12)
    \o SliceFrom(QA_a, 12)

\* An A query whose question names the blocked name by a compression pointer
\* to offset 18, where the additional record spells it out.
Ptr18 == <<192, 18>>
QA_ptr_a ==
    Hdr(<<171, 213>>, <<1, 0>>, 1, 0, 0, 1) \o Qn(Ptr18, RR_type_A)
    \o RR(WireA, RR_type_A, <<0, 0, 0, 2>>, <<1, 2, 3, 4>>)

\* An A query for the blocked name that carries one additional record.
QA_a_additional ==
    Hdr(<<171, 208>>, <<1, 0>>, 1, 0, 0, 1) \o Qn(WireA, RR_type_A)
    \o RR(Ptr, RR_type_A, <<0, 0, 0, 2>>, <<1, 2, 3, 4>>)

\* Truncated queries: QDCOUNT=1 and no question bytes; the additional
\* record cut one byte short of its RDLENGTH.
QTruncHeader == SubSeq(QA_a, 1, 12)
QTruncRR == SubSeq(QA_a_additional, 1, Len(QA_a_additional) - 1)
TruncatedQueries == {QTruncHeader, QTruncRR}

\* Structurally invalid queries: QDCOUNT=0, and shorter than a header.
QNoQuestion == Hdr(<<171, 209>>, <<1, 0>>, 0, 0, 0, 0)
QShort == <<171, 210, 1, 0>>
InvalidQueries == {QNoQuestion, QShort}

Queries ==
    {QA_a, QA_a_flags, QA_a_additional, QA_b, QA_c, QA_d, QNS_a, QNS_a_then_A,
     QA_ptr_a}
    \cup TruncatedQueries \cup InvalidQueries

\* Upstream replies.  Rb_A has the AD bit (a Z bit) set.
Rb_A == Hdr(<<171, 206>>, <<129, 160>>, 1, 1, 0, 0) \o Qn(WireB, RR_type_A)
        \o RR(Ptr, RR_type_A, <<0, 0, 0, 2>>, <<1, 2, 3, 4>>)
Rb_A_ttl0 == Hdr(<<171, 206>>, <<129, 128>>, 1, 1, 0, 0) \o Qn(WireB, RR_type_A)
             \o RR(Ptr, RR_type_A, <<0, 0, 0, 0>>, <<1, 2, 3, 4>>)
Rb_AA == Hdr(<<171, 206>>, <<129, 128>>, 1, 2, 0, 0) \o Qn(WireB, RR_type_A)
         \o RR(Ptr, RR_type_A, <<0, 0, 0, 2>>, <<1, 2, 3, 4>>)
         \o RR(Ptr, RR_type_A, <<0, 0, 0, 1>>, <<5, 6, 7, 8>>)
Rb_CNAME == Hdr(<<171, 206>>, <<129, 128>>, 1, 1, 0, 0) \o Qn(WireB, RR_type_A)
            \o RR(Ptr, RR_type_CNAME, <<0, 0, 0, 2>>, WireA)
Rb_NX == Hdr(<<171, 206>>, <<129, 131>>, 1, 0, 0, 0) \o Qn(WireB, RR_type_A)
Ra_A == Hdr(<<171, 207>>, <<129, 128>>, 1, 1, 0, 0) \o Qn(WireA, RR_type_NS)
        \o RR(Ptr, RR_type_A, <<0, 0, 0, 2>>, <<1, 2, 3, 4>>)
Ra_A_ttl0 == Hdr(<<171, 207>>, <<129, 128>>, 1, 1, 0, 0) \o Qn(WireA, RR_type_NS)
             \o RR(Ptr, RR_type_A, <<0, 0, 0, 0>>, <<1, 2, 3, 4>>)
Rd_A == Hdr(<<171, 211>>, <<129, 128>>, 1, 1, 0, 0) \o Qn(WireD, RR_type_A)
        \o RR(Ptr, RR_type_A, <<0, 0, 0, 2>>, <<5, 6, 7, 8>>)
RShort == <<171, 206>>

Replies ==
    {Rb_A, Rb_A_ttl0, Rb_AA, Rb_CNAME, Rb_NX, Ra_A, Ra_A_ttl0, Rd_A, RShort}

\* Message.from_bytes is a function of the bytes alone: what it gives for the
\* datagrams above is computed once, for any other bytes when asked.
Datagrams == Queries \cup Replies
Messages == [d \in Datagrams |-> MessageFromBytes(d)]
MessageOf(bytes) ==
    IF bytes \in Datagrams THEN Messages[bytes] ELSE MessageFromBytes(bytes)

\* The host file: "0.0.0.0 a" and "1.2.3.4 c".
HostFile ==
    << [addr |-> <<0, 0, 0, 0>>, domain |-> NameA],
       [addr |-> <<1, 2, 3, 4>>, domain |-> NameC] >>

\* ------------------------------------------------------------------------
\* core/server.py: DNSServer
\* ------------------------------------------------------------------------

\* The header of the Answer response: _handle rewrites RA, QDCOUNT, ANCOUNT
\* and QR of the parsed query header.
AnswerHeader(header) ==
    [header EXCEPT !.RA = <<1>>, !.QDCOUNT = <<0, 0>>,
                   !.ANCOUNT = <<0, 1>>, !.QR = <<1>>]

\* BlockedHeader without the assignment of RCODE.
BlockedHeaderKeepsRcode(header) ==
    [header EXCEPT !.RA = <<1>>, !.QDCOUNT = <<0, 0>>,
                   !.ANCOUNT = <<0, 0>>, !.QR = <<1>>]

\* The header of the Blocked response.
BlockedHeader(header) ==
    [header EXCEPT !.RA = <<1>>, !.QDCOUNT = <<0, 0>>,
                   !.ANCOUNT = <<0, 0>>, !.QR = <<1>>, !.RCODE = <<3>>]

\* The TTL condition of _forward's caching test.
TtlNonZero(answer) == answer.TTL # <<0, 0>>

\* What _forward sends upstream.
ForwardSend(bytes) == bytes

\* ForwardReturn giving back the parsed message serialized again.
ForwardReturnSerialized(response) ==
    MessageGetBytes(MessageFromBytes(response).val)

\* What _forward returns for the client.
ForwardReturn(response) == response

\* The outcome of a handler: the exception that left it, the branch it
\* logged, the responses it sent, whether it sent the query upstream.
Outcome(raised, branch, out, fwd) ==
    [exc |-> raised, route |-> branch, out |-> out, fwd |-> fwd]

\* _handle, the Answer branch: the TTL it passes to ResourceRecord.
AnswerTtl(c, name) ==
    IF CacheGetTtl(c, name) # -1 THEN CacheGetTtl(c, name) ELSE 0

\* _handle, the Answer branch: the response is sent when ResourceRecord
\* returned.
SendAnswer(header, answer) ==
    IF answer.exc # "" THEN Outcome(answer.exc, "answer", <<>>, FALSE)
    ELSE Outcome("", "answer",
                 <<MessageGetBytes(MessageInit(header, <<>>, <<answer.val>>,
                                               <<>>, <<>>))>>,
                 FALSE)

\* _handle, the Answer branch.  RR_type.A and RR_class.IN are bytes.
HandleAnswer(message, name, c) ==
    SendAnswer(AnswerHeader(message.Header),
               ResourceRecordInit(Ptr, PyBytes(RR_type_A),
                                  PyBytes(RR_class_IN),
                                  PyInt(AnswerTtl(c, name)), PyInt(4),
                                  CacheGet(c, name)))

\* HandleBlocked sending the query upstream as well.
HandleBlockedForwarding(message) ==
    Outcome("", "blocked",
            <<MessageGetBytes(MessageInit(BlockedHeader(message.Header),
                                          <<>>, <<>>, <<>>, <<>>))>>,
            TRUE)

\* _handle, the Blocked branch.
HandleBlocked(message) ==
    Outcome("", "blocked",
            <<MessageGetBytes(MessageInit(BlockedHeader(message.Header),
                                          <<>>, <<>>, <<>>, <<>>))>>,
            FALSE)

\* _handle from the cache read of an A query on.
HandleLookup(message, name, c, rdata) ==
    IF rdata # None
    THEN IF rdata # Sentinel
         THEN HandleAnswer(message, name, c)
         ELSE HandleBlocked(message)
    ELSE Outcome("", "forward", <<>>, TRUE)

\* HandleQuestion without the test of QTYPE: every question is looked up.
HandleQuestionAnyType(message, question, name, c, up) ==
    IF name.exc # "" THEN Outcome(name.exc, "none", <<>>, FALSE)
    ELSE IF ~up THEN Outcome("ConnectionError", "none", <<>>, FALSE)
    ELSE HandleLookup(message, name.val, c, CacheGet(c, name.val))

\* _handle from the test of QTYPE on.  get_QNAME is called in every branch,
\* first as an argument of the cache read or of the log line.  up tells
\* whether the cache backend answers; a failed call raises ConnectionError.
HandleQuestion(message, question, name, c, up) ==
    IF name.exc # "" THEN Outcome(name.exc, "none", <<>>, FALSE)
    ELSE IF question.QTYPE = RR_type_A
    THEN IF ~up THEN Outcome("ConnectionError", "none", <<>>, FALSE)
         ELSE HandleLookup(message, name.val, c, CacheGet(c, name.val))
    ELSE Outcome("", "forward", <<>>, TRUE)

\* _handle from the parsed message on.
HandleMessage(m, c, up) ==
    IF m.exc # "" THEN Outcome(m.exc, "none", <<>>, FALSE)
    ELSE IF Len(m.val.Questions) = 0
    THEN Outcome("IndexError", "none", <<>>, FALSE)
    ELSE HandleQuestion(m.val, m.val.Questions[1],
                        get_QNAME(m.val.Questions[1]), c, up)

\* _handle up to its sendto, or up to the recvfrom of _forward.
_handle(bytes, c, up) == HandleMessage(MessageOf(bytes), c, up)

\* Learn writing a whole new database: the entries of other names are lost.
LearnDroppingOthers(c, name, answer) ==
    CacheSetTtl(CachePut(<<>>, name, answer.RDATA), name,
                IntFromHex(answer.TTL))

\* _forward: the cache writes for one answer.
Learn(c, name, answer) ==
    CacheSetTtl(CachePut(c, name, answer.RDATA), name, IntFromHex(answer.TTL))

\* The loop of _forward over message.Answers: the cache it leaves and the
\* exception that ended it, if any.
RECURSIVE LearnLoop(_, _, _, _)
RECURSIVE LearnAnswer(_, _, _, _, _)

LearnLoop(answers, message, c, up) ==
    IF Len(answers) = 0 THEN [exc |-> "", cache |-> c]
    ELSE IF Head(answers).TYPE = RR_type_A /\ TtlNonZero(Head(answers))
    THEN IF Len(message.Questions) = 0
         THEN [exc |-> "IndexError", cache |-> c]
         ELSE LearnAnswer(answers, message, c, up,
                          get_QNAME(message.Questions[1]))
    ELSE LearnLoop(Tail(answers), message, c, up)

LearnAnswer(answers, message, c, up, name) ==
    IF name.exc # "" THEN [exc |-> name.exc, cache |-> c]
    ELSE IF ~up THEN [exc |-> "ConnectionError", cache |-> c]
    ELSE LearnLoop(Tail(answers), message,
                   Learn(c, name.val, Head(answers)), up)

\* _forward from the return of its recvfrom: the exception that left it, the
\* cache it leaves, the bytes it returns.
ForwardLearned(response, l) ==
    [exc |-> l.exc, cache |-> l.cache,
     ret |-> IF l.exc = "" THEN ForwardReturn(response) ELSE <<>>]

ForwardParsed(response, m, c, up) ==
    IF m.exc # "" THEN [exc |-> m.exc, cache |-> c, ret |-> <<>>]
    ELSE ForwardLearned(response, LearnLoop(m.val.Answers, m.val, c, up))

_forward(response, c, up) ==
    ForwardParsed(response, MessageOf(response), c, up)

\* start: the host file loaded into the cache.
RECURSIVE LoadHostFile(_, _)
LoadHostFile(lines, c) ==
    IF Len(lines) = 0 THEN c
    ELSE LoadHostFile(Tail(lines),
                      CachePut(c, Head(lines).domain,
                               get_bytes_from_ipv4(Head(lines).addr)))

\* ------------------------------------------------------------------------
\* Messages for the codec on its own
\* ------------------------------------------------------------------------

\* Labels a name has at most, and records an Answer section has at most.
MaxLabels == 3
MaxRRs == 2

\* The sequences of at most n elements of S.
RECURSIVE SeqsUpTo(_, _)
SeqsUpTo(S, n) ==
    IF n = 0 THEN {<<>>}
    ELSE SeqsUpTo(S, n - 1)
         \cup {Append(q, x) : q \in SeqsUpTo(S, n - 1), x \in S}

\* Labels of 1, 2 and 63 bytes, none of them zero.
Label63 == [i \in 1..63 |-> 120]
Labels == {<<97>>, <<98, 99>>, Label63}

\* Names as their sequences of labels.
Names == SeqsUpTo(Labels, MaxLabels)

\* The uncompressed wire encoding of a name: each label after its length,
\* then a zero byte.
RECURSIVE EncodeName(_)
EncodeName(labels) ==
    IF Len(labels) = 0 THEN <<0>>
    ELSE <<Len(Head(labels))>> \o Head(labels) \o EncodeName(Tail(labels))

\* Header fields within their widths; AA, TC, RD and RA go together.
Flags(id, qr, op, f, z, rc) ==
    [ID |-> id, QR |-> qr, Opcode |-> op, AA |-> f, TC |-> f, RD |-> f,
     RA |-> f, Z |-> z, RCODE |-> rc]
PlainFlags == Flags(4660, 0, 0, 0, 0, 0)
FlagSets ==
    {Flags(4660, qr, op, f, z, rc) :
        qr \in {0, 1}, op \in {0, 15}, f \in {0, 1}, z \in {0, 2, 7},
        rc \in {0, 15}}

\* The three wire representations of a record's name: labels ended by a
\* zero byte, a pointer alone, labels followed by a pointer.
LiteralName == <<1, 119, 0>>
LabelsThenPointer == <<1, 119>> \o Ptr
RRNames == {LiteralName, Ptr, LabelsThenPointer}

\* An address record of TTL 300 as ResourceRecord builds it from ints.
Record(name, rdata) ==
    ResourceRecordInit(name, PyInt(1), PyInt(1), PyInt(300),
                       PyInt(Len(rdata)), rdata).val

\* Records of RDLENGTH 0, 1 and 4.
Records ==
    {Record(n, d) : n \in RRNames, d \in {<<>>, <<9>>, <<1, 2, 3, 4>>}}

\* What a message is built from: the name of its question, its header
\* flags, its answers, and whether one authority and one additional record
\* follow them.
Input(name, flags, an, more) ==
    [name |-> name, flags |-> flags, an |-> an, more |-> more]
NoInput == Input(<<>>, PlainFlags, <<>>, FALSE)
Inputs ==
    {Input(n, PlainFlags, <<>>, FALSE) : n \in Names}
    \cup {Input(<<<<97>>>>, f, <<>>, FALSE) : f \in FlagSets}
    \cup {Input(<<<<97>>>>, PlainFlags, an, more) :
             an \in SeqsUpTo(Records, MaxRRs), more \in BOOLEAN}

\* The authority or additional section of an input.
More(i) == IF i.more THEN <<Record(Ptr, <<1, 2, 3, 4>>)>> ELSE <<>>

\* The valid Message of an input: one question, counts equal to the
\* section lengths.
InputMessage(i) ==
    MessageInit(
        HeaderInit(i.flags.ID, i.flags.QR, i.flags.Opcode, i.flags.AA,
                   i.flags.TC, i.flags.RD, i.flags.RA, i.flags.RCODE,
                   i.flags.Z, 1, Len(i.an), Len(More(i)), Len(More(i))),
        <<QuestionInit(EncodeName(i.name), RR_type_A, RR_class_IN)>>,
        i.an, More(i), More(i))

\* No result yet.
NoResult == Raise("none")

\* ------------------------------------------------------------------------
\* The server as a state machine
\* ------------------------------------------------------------------------

\* Datagrams the listening socket buffers at most.
MaxInbox == 1

\* No datagram.
NoData == <<-1>>

VARIABLES
    pc,          \* "listen": in recvfrom of _listen; "handle": at the
                 \* call of _handle; "forward": in recvfrom of _forward;
                 \* "crashed": an exception left _listen
    cache,       \* the Redis database
    inbox,       \* datagrams received by the socket and not yet read
    data,        \* the datagram of the last _handle call
    reply,       \* the upstream datagram _forward received for it
    route,       \* the branch _handle logged for it
    exc,         \* the exception that ended the listener
    toClient,    \* the responses sent to the client for it
    toUpstream,  \* the datagrams sent to the upstream resolver for it
    backendUp,   \* whether the Redis server answers
    cpc,         \* the codec on its own: "off", or how far a message got
                 \* ("built", "serialized", "parsed", "named")
    input,       \* the fields the message was built from
    wire,        \* Message.get_bytes of it
    parsed,      \* Message.from_bytes of these bytes
    decoded,     \* Question.get_QNAME of the parsed first question
    hpc,         \* the Answer branch of _handle read by read: "off", or
                 \* the cache read it is at ("lookup", "ttl-test", "ttl",
                 \* "rdata"), "build", "done"
    hRdata,      \* rdata, the value the lookup returned
    hTtlTest,    \* the get_ttl that is compared with -1
    hTtl,        \* ttl
    hAnswerRdata \* the value read again for the RDATA of the answer

\* The variables of the codec on its own.
codec == <<cpc, input, wire, parsed, decoded>>

\* The variables of the handler read by read.
reads == <<hpc, hRdata, hTtlTest, hTtl, hAnswerRdata>>

\* The variables of the server.
server == <<pc, cache, inbox, data, reply, route, exc, toClient, toUpstream,
            backendUp>>

vars == <<pc, cache, inbox, data, reply, route, exc, toClient, toUpstream,
          backendUp, cpc, input, wire, parsed, decoded, hpc, hRdata,
          hTtlTest, hTtl, hAnswerRdata>>

\* The server before its first datagram.
ServerInit ==
    /\ pc = "listen"
    /\ cache = LoadHostFile(HostFile, <<>>)
    /\ inbox = <<>>
    /\ data = NoData
    /\ reply = NoData
    /\ route = "none"
    /\ exc = ""
    /\ toClient = <<>>
    /\ toUpstream = <<>>
    /\ backendUp = TRUE

\* No handler is followed read by read.
ReadsOff ==
    /\ hpc = "off"
    /\ hRdata = None
    /\ hTtlTest = 0
    /\ hTtl = 0
    /\ hAnswerRdata = None

Init ==
    /\ ServerInit
    /\ cpc = "off"
    /\ input = NoInput
    /\ wire = <<>>
    /\ parsed = NoResult
    /\ decoded = NoResult
    /\ ReadsOff

\* A client datagram reaches the listening socket.  _handle runs from the
\* return of recvfrom to its next blocking call without looking at the
\* socket, the clock or the backend in between: what happens meanwhile is
\* taken to happen right after.
Arrive(q) ==
    /\ pc \notin {"crashed", "handle"}
    /\ Len(inbox) < MaxInbox
    /\ inbox' = Append(inbox, q)
    /\ UNCHANGED <<pc, cache, data, reply, route, exc, toClient, toUpstream,
                   backendUp>>
    /\ UNCHANGED codec
    /\ UNCHANGED reads

\* _listen: recvfrom returns the oldest buffered datagram.
Recv ==
    /\ pc = "listen"
    /\ inbox # <<>>
    /\ pc' = "handle"
    /\ data' = Head(inbox)
    /\ inbox' = Tail(inbox)
    /\ reply' = NoData
    /\ route' = "none"
    /\ exc' = ""
    /\ toClient' = <<>>
    /\ toUpstream' = <<>>
    /\ UNCHANGED <<cache, backendUp>>
    /\ UNCHANGED codec
    /\ UNCHANGED reads

\* _handle returns after its sendto, blocks in _forward, or raises through
\* the while loop of _listen, which ends the process and its socket.
Handled(r) ==
    /\ route' = r.route
    /\ exc' = r.exc
    /\ toClient' = r.out
    /\ toUpstream' = IF r.fwd THEN <<ForwardSend(data)>> ELSE <<>>
    /\ pc' = IF r.exc # "" THEN "crashed"
             ELSE IF r.fwd THEN "forward" ELSE "listen"
    /\ inbox' = IF r.exc # "" THEN <<>> ELSE inbox
    /\ UNCHANGED <<cache, data, reply, backendUp>>

Handle ==
    /\ pc = "handle"
    /\ Handled(_handle(data, cache, backendUp))
    /\ UNCHANGED codec
    /\ UNCHANGED reads

\* The upstream reply arrives: the rest of _forward, then _handle's sendto.
Forwarded(response, f) ==
    /\ reply' = response
    /\ cache' = f.cache
    /\ exc' = f.exc
    /\ toClient' = IF f.exc = "" THEN <<f.ret>> ELSE <<>>
    /\ pc' = IF f.exc = "" THEN "listen" ELSE "crashed"
    /\ inbox' = IF f.exc = "" THEN inbox ELSE <<>>
    /\ UNCHANGED <<data, route, toUpstream, backendUp>>
    /\ UNCHANGED codec
    /\ UNCHANGED reads

ForwardReply ==
    /\ pc = "forward"
    /\ \E response \in Replies :
          Forwarded(response, _forward(response, cache, backendUp))

\* A second passes in the cache store.
Tick ==
    /\ pc # "handle"
    /\ \E k \in DOMAIN cache : cache[k].ttl > 0
    /\ cache' = CacheTick(cache)
    /\ UNCHANGED <<pc, inbox, data, reply, route, exc, toClient, toUpstream,
                   backendUp>>
    /\ UNCHANGED codec
    /\ UNCHANGED reads

\* The Redis server becomes unreachable, or reachable again.
Backend ==
    /\ pc \notin {"crashed", "handle"}
    /\ backendUp' = ~backendUp
    /\ UNCHANGED <<pc, cache, inbox, data, reply, route, exc, toClient,
                   toUpstream>>
    /\ UNCHANGED codec
    /\ UNCHANGED reads

Next ==
    \/ \E q \in Queries : Arrive(q)
    \/ Recv
    \/ Handle
    \/ ForwardReply
    \/ Tick
    \/ Backend

Spec == Init /\ [][Next]_vars

\* The listener is a running thread: its recvfrom returns whenever a datagram
\* is buffered.  The upstream resolver owes no reply.
FairSpec == Spec /\ WF_vars(Recv)

\* ------------------------------------------------------------------------
\* The codec on its own: a Message is serialized, the bytes are parsed, the
\* name of the parsed question is decoded
\* ------------------------------------------------------------------------

CodecInit ==
    /\ ServerInit
    /\ cpc = "built"
    /\ input \in Inputs
    /\ wire = <<>>
    /\ parsed = NoResult
    /\ decoded = NoResult
    /\ ReadsOff

\* Message.get_bytes
Serialize ==
    /\ cpc = "built"
    /\ wire' = MessageGetBytes(InputMessage(input))
    /\ cpc' = "serialized"
    /\ UNCHANGED <<input, parsed, decoded>>
    /\ UNCHANGED server
    /\ UNCHANGED reads

\* Message.from_bytes
Parse ==
    /\ cpc = "serialized"
    /\ parsed' = MessageFromBytes(wire)
    /\ cpc' = "parsed"
    /\ UNCHANGED <<input, wire, decoded>>
    /\ UNCHANGED server
    /\ UNCHANGED reads

\* Question.get_QNAME of the first question parsed
DecodeName ==
    /\ cpc = "parsed"
    /\ parsed.exc = ""
    /\ decoded' = get_QNAME(parsed.val.Questions[1])
    /\ cpc' = "named"
    /\ UNCHANGED <<input, wire, parsed>>
    /\ UNCHANGED server
    /\ UNCHANGED reads

CodecNext == Serialize \/ Parse \/ DecodeName

CodecSpec == CodecInit /\ [][CodecNext]_vars

\* ------------------------------------------------------------------------
\* The Answer branch of _handle read by read: the Redis server expires keys
\* on its own clock, between any two reads the handler makes
\* ------------------------------------------------------------------------

\* The longest TTL learned.
MaxStepTtl == 4

\* The cache after start.
HostCache == LoadHostFile(HostFile, <<>>)

\* The cache after start, and after b was learned for t seconds.
StepCaches ==
    {HostCache}
    \cup {Learn(HostCache, NameB,
                [RDATA |-> <<1, 2, 3, 4>>, TTL |-> ToBytes(t, 4)]) :
             t \in 1..MaxStepTtl}

\* A queries for the blocked name, the learned name, the name of the host
\* file and an unknown name.
StepQueries == {QA_a, QA_b, QA_c, QA_d}

\* recvfrom has returned the query.
StepInit ==
    /\ pc = "handle"
    /\ cache \in StepCaches
    /\ inbox = <<>>
    /\ data \in StepQueries
    /\ reply = NoData
    /\ route = "none"
    /\ exc = ""
    /\ toClient = <<>>
    /\ toUpstream = <<>>
    /\ backendUp = TRUE
    /\ cpc = "off"
    /\ input = NoInput
    /\ wire = <<>>
    /\ parsed = NoResult
    /\ decoded = NoResult
    /\ hpc = "lookup"
    /\ hRdata = None
    /\ hTtlTest = 0
    /\ hTtl = 0
    /\ hAnswerRdata = None

\* The name the handler reads the cache under.
StepName == get_QNAME(MessageOf(data).val.Questions[1]).val

\* _handle up to rdata = self._cache.get(...): with an address found the
\* Answer branch goes on read by read, every other branch ends here.
StepLookup ==
    /\ hpc = "lookup"
    /\ IF _handle(data, cache, backendUp).route = "answer"
       THEN /\ hRdata' = CacheGet(cache, StepName)
            /\ hpc' = "ttl-test"
            /\ UNCHANGED server
       ELSE /\ Handled(_handle(data, cache, backendUp))
            /\ hpc' = "done"
            /\ hRdata' = hRdata
    /\ UNCHANGED <<hTtlTest, hTtl, hAnswerRdata>>
    /\ UNCHANGED codec

\* The get_ttl of the condition: ttl is 0 when it is -1.
StepTtlTest ==
    /\ hpc = "ttl-test"
    /\ hTtlTest' = CacheGetTtl(cache, StepName)
    /\ hpc' = IF CacheGetTtl(cache, StepName) # -1 THEN "ttl" ELSE "rdata"
    /\ hTtl' = 0
    /\ UNCHANGED <<hRdata, hAnswerRdata>>
    /\ UNCHANGED server
    /\ UNCHANGED codec

\* ttl = self._cache.get_ttl(...)
StepTtl ==
    /\ hpc = "ttl"
    /\ hTtl' = CacheGetTtl(cache, StepName)
    /\ hpc' = "rdata"
    /\ UNCHANGED <<hRdata, hTtlTest, hAnswerRdata>>
    /\ UNCHANGED server
    /\ UNCHANGED codec

\* The get that is the last argument of ResourceRecord.
StepRdata ==
    /\ hpc = "rdata"
    /\ hAnswerRdata' = CacheGet(cache, StepName)
    /\ hpc' = "build"
    /\ UNCHANGED <<hRdata, hTtlTest, hTtl>>
    /\ UNCHANGED server
    /\ UNCHANGED codec

\* ResourceRecord(...), Message(...).get_bytes() and the sendto, on what
\* was read.
StepBuild ==
    /\ hpc = "build"
    /\ Handled(SendAnswer(AnswerHeader(MessageOf(data).val.Header),
                          ResourceRecordInit(Ptr, PyBytes(RR_type_A),
                                             PyBytes(RR_class_IN),
                                             PyInt(hTtl), PyInt(4),
                                             hAnswerRdata)))
    /\ hpc' = "done"
    /\ UNCHANGED <<hRdata, hTtlTest, hTtl, hAnswerRdata>>
    /\ UNCHANGED codec

\* A second passes in the cache store while the handler runs.
StepTick ==
    /\ hpc \notin {"off", "done"}
    /\ \E k \in DOMAIN cache : cache[k].ttl > 0
    /\ cache' = CacheTick(cache)
    /\ UNCHANGED <<pc, inbox, data, reply, route, exc, toClient, toUpstream,
                   backendUp>>
    /\ UNCHANGED reads
    /\ UNCHANGED codec

StepNext ==
    \/ StepLookup
    \/ StepTtlTest
    \/ StepTtl
    \/ StepRdata
    \/ StepBuild
    \/ StepTick

StepSpec == StepInit /\ [][StepNext]_vars

\* ------------------------------------------------------------------------
\* Properties
\* ------------------------------------------------------------------------

\* The datagram parses as a query whose first question has a readable name.
Readable(m) ==
    /\ m.exc = ""
    /\ Len(m.val.Questions) > 0
    /\ get_QNAME(m.val.Questions[1]).exc = ""

\* The datagram is an A query by its first question.
IsAQuery(q) ==
    /\ Readable(MessageOf(q))
    /\ MessageOf(q).val.Questions[1].QTYPE = RR_type_A

\* The name of the first question of a readable datagram.
QueryName(q) == get_QNAME(MessageOf(q).val.Questions[1]).val

\* The step in which _handle runs on the datagram read.
HandleStep == pc = "handle" /\ pc' # "handle"

\* The step in which _forward receives the upstream reply.
ForwardStep == pc = "forward" /\ pc' # "forward"

\* Header fields of a response of at least 12 bytes.
RespID(r) == SubSeq(r, 1, 2)
RespQR(r) == r[3] \div 128
RespRA(r) == r[4] \div 128
RespRCODE(r) == r[4] % 16
RespQDCOUNT(r) == SubSeq(r, 5, 6)
RespANCOUNT(r) == SubSeq(r, 7, 8)

\* r answers query q with the one address addr: the header fields of the
\* claim, then one RR of a 2-byte name, TYPE A, CLASS IN, RDLENGTH 4.
IsAnswer(r, q, addr) ==
    /\ Len(r) = 28
    /\ RespID(r) = SubSeq(q, 1, 2)
    /\ RespQR(r) = 1 /\ RespRA(r) = 1 /\ RespRCODE(r) = 0
    /\ RespQDCOUNT(r) = <<0, 0>> /\ RespANCOUNT(r) = <<0, 1>>
    /\ SubSeq(r, 15, 16) = <<0, 1>>
    /\ SubSeq(r, 17, 18) = <<0, 1>>
    /\ SubSeq(r, 23, 24) = <<0, 4>>
    /\ SubSeq(r, 25, 28) = addr

\* r tells the sender of q that the name does not exist, in a bare header.
IsBlocked(r, q) ==
    /\ Len(r) = 12
    /\ RespID(r) = SubSeq(q, 1, 2)
    /\ RespQR(r) = 1 /\ RespRA(r) = 1 /\ RespRCODE(r) = 3
    /\ RespQDCOUNT(r) = <<0, 0>> /\ RespANCOUNT(r) = <<0, 0>>

\* C1: an A query whose name has a cached address other than 0.0.0.0 gets
\* exactly one response, with the query's ID, QR=1, RA=1, QDCOUNT=0,
\* ANCOUNT=1, RCODE=0 and one Answer RR of TYPE A, CLASS IN, RDLENGTH 4
\* carrying the cached address, whatever the other header fields.
C1_AnswerFromCache ==
    [][(/\ HandleStep
        /\ backendUp
        /\ IsAQuery(data)
        /\ CacheGet(cache, QueryName(data)) # None
        /\ CacheGet(cache, QueryName(data)) # Sentinel)
       => (/\ Len(toClient') = 1
           /\ IsAnswer(toClient'[1], data,
                       CacheGet(cache, QueryName(data))))]_vars

\* C2: an A query whose name has the cached address 0.0.0.0 gets exactly one
\* response, of 12 bytes, with the query's ID, QR=1, RA=1, QDCOUNT=0,
\* ANCOUNT=0 and RCODE=3, and nothing is sent to the upstream resolver.
C2_BlockedResponse ==
    [][(/\ HandleStep
        /\ backendUp
        /\ IsAQuery(data)
        /\ CacheGet(cache, QueryName(data)) = Sentinel)
       => (/\ Len(toClient') = 1
           /\ IsBlocked(toClient'[1], data)
           /\ toUpstream' = <<>>)]_vars

\* A blocked response was sent for the query with every header flag set.
C2_Witness ==
    /\ data = QA_a_flags
    /\ route = "blocked"
    /\ Len(toClient) = 1
    /\ pc = "listen"

\* The names the host file blocks.
SeededBlocked ==
    {HostFile[i].domain : i \in {j \in 1..Len(HostFile) :
                                    get_bytes_from_ipv4(HostFile[j].addr) = Sentinel}}

\* C3: a name seeded with 0.0.0.0 and no TTL keeps that entry whatever
\* queries and upstream replies are handled, and an A query for it is
\* answered with RCODE=3 and never forwarded.
C3_BlockingStable ==
    [][/\ \A n \in SeededBlocked :
              /\ CacheGet(cache', n) = Sentinel
              /\ CacheGetTtl(cache', n) = -1
       /\ (/\ HandleStep
           /\ backendUp
           /\ IsAQuery(data)
           /\ QueryName(data) \in SeededBlocked)
          => (/\ Len(toClient') = 1
              /\ IsBlocked(toClient'[1], data)
              /\ toUpstream' = <<>>)]_vars

\* C4: a forwarded query goes upstream byte for byte, and what the client
\* gets for it is the upstream datagram byte for byte.
C4_Verbatim ==
    route = "forward"
    => /\ toUpstream = <<data>>
       /\ toClient # <<>> => toClient = <<reply>>
       /\ pc = "listen" => toClient = <<reply>>

\* The A query for the unknown name was forwarded and the reply with a Z bit
\* set was relayed.
C4_Witness ==
    /\ data = QA_b
    /\ route = "forward"
    /\ pc = "listen"
    /\ reply = Rb_A
    /\ toClient = <<Rb_A>>
    /\ toUpstream = <<QA_b>>

\* The Answer RRs of a reply that parses.
AnswersOf(r) == MessageOf(r).val.Answers

\* An entry of the cache has the value and a remaining TTL in (0, t].
Learned(c, n, rdata, t) ==
    /\ CacheGet(c, n) = rdata
    /\ CacheGetTtl(c, n) > 0
    /\ CacheGetTtl(c, n) <= t

\* C5: when the reply to a forwarded query for N has an Answer RR of type A
\* with TTL t > 0, the handler leaves get(N, "A") equal to its RDATA with
\* get_ttl(N) in (0, t], and a following A query for N within the TTL is
\* answered from the cache without contacting upstream.
C5_LearnOnForward ==
    [][/\ (/\ ForwardStep
           /\ pc' = "listen"
           /\ Readable(MessageOf(data)))
          => \A i \in 1..Len(AnswersOf(reply')) :
                (/\ AnswersOf(reply')[i].TYPE = RR_type_A
                 /\ IntFromHex(AnswersOf(reply')[i].TTL) > 0)
                => Learned(cache', QueryName(data),
                           AnswersOf(reply')[i].RDATA,
                           IntFromHex(AnswersOf(reply')[i].TTL))
       /\ (/\ HandleStep
           /\ backendUp
           /\ IsAQuery(data)
           /\ CacheGet(cache, QueryName(data)) # None
           /\ CacheGet(cache, QueryName(data)) # Sentinel
           /\ CacheGetTtl(cache, QueryName(data)) > 0)
          => (Len(toClient') = 1 /\ toUpstream' = <<>>)]_vars

\* The reply parses, has a type-A Answer RR, and all of them have TTL 0.
OnlyZeroTtlAnswers(r) ==
    /\ MessageOf(r).exc = ""
    /\ \E i \in 1..Len(AnswersOf(r)) : AnswersOf(r)[i].TYPE = RR_type_A
    /\ \A i \in 1..Len(AnswersOf(r)) :
          AnswersOf(r)[i].TYPE = RR_type_A
          => IntFromHex(AnswersOf(r)[i].TTL) = 0

\* C6: an upstream reply whose type-A answers all have TTL 0 leaves the
\* cache as it was before the query.
C6_ZeroTtlNotCached ==
    [][(ForwardStep /\ OnlyZeroTtlAnswers(reply')) => cache' = cache]_vars

\* C7: a truncated query produces no response, no upstream datagram and
\* no cache mutation.
C7_TruncatedDropped ==
    [][((HandleStep \/ ForwardStep) /\ data' \in TruncatedQueries)
       => (toClient' = <<>> /\ toUpstream' = <<>> /\ cache' = cache)]_vars

\* C8: a structurally invalid datagram gets no response and leaves the
\* listener in its receive loop.
C8_InvalidDropped ==
    data \in InvalidQueries => (toClient = <<>> /\ pc \in {"listen", "handle"})

\* The query can be answered from the cache as it is.
CacheAnswerable(q, c) == IsAQuery(q) /\ CacheGet(c, QueryName(q)) # None

\* A query that can be answered from the cache waits in the socket while the
\* listener is in _forward.
WaitingBehindForward ==
    /\ pc = "forward"
    /\ backendUp
    /\ inbox # <<>>
    /\ CacheAnswerable(Head(inbox), cache)

\* C9: when a forwarded query never receives its upstream reply, a query
\* that arrived after it and can be answered from the cache is still
\* answered: the listener does not stay in _forward (where it reads and
\* answers nothing) unless the reply arrives after all.
C9_Independent == WaitingBehindForward ~> (pc # "forward")

\* C10: when the cache read of an A query fails, the query is forwarded
\* verbatim and the listener goes on to relay the upstream reply.
C10_ReadFailureIsMiss ==
    [][(HandleStep /\ ~backendUp /\ IsAQuery(data))
       => (toUpstream' = <<data>> /\ pc' = "forward")]_vars

\* The reply parses and has an Answer RR of type A.
HasAddressAnswer(r) ==
    /\ MessageOf(r).exc = ""
    /\ \E i \in 1..Len(AnswersOf(r)) : AnswersOf(r)[i].TYPE = RR_type_A

\* C11: when a cache write fails on the forward path, the upstream reply is
\* still relayed byte for byte and the listener goes on.
C11_WriteFailureStillRelays ==
    [][(ForwardStep /\ ~backendUp /\ HasAddressAnswer(reply'))
       => (toClient' = <<reply'>> /\ pc' = "listen")]_vars

\* The parsed reply answers the parsed query: its first question names what
\* the query asked for.
ReplyAnswers(mr, mq) ==
    /\ Readable(mq)
    /\ Readable(mr)
    /\ get_QNAME(mr.val.Questions[1]).val = get_QNAME(mq.val.Questions[1]).val

\* From cache c to cache d only the entry of name changed, and it was
\* learned from the answers when they are one A answer of TTL t > 0.
LearnedAlone(name, answers, c, d) ==
    /\ \A n \in (DOMAIN c \cup DOMAIN d) \ {name} :
          /\ CacheGet(d, n) = CacheGet(c, n)
          /\ CacheGetTtl(d, n) = CacheGetTtl(c, n)
    /\ (/\ Len(answers) = 1
        /\ answers[1].TYPE = RR_type_A
        /\ IntFromHex(answers[1].TTL) > 0)
       => Learned(d, name, answers[1].RDATA, IntFromHex(answers[1].TTL))

IndependentUpdate(mq, mr, c, d) ==
    ReplyAnswers(mr, mq)
    => LearnedAlone(get_QNAME(mq.val.Questions[1]).val, mr.val.Answers, c, d)

\* C12: the reply to a forwarded query changes the cache entry of that
\* query's name only, whatever was learned for other names before, in either
\* order of arrival: with one A answer of TTL t > 0 the entry of the name is
\* learned, and every entry of another name stays as it was.
C12_IndependentUpdates ==
    [][(ForwardStep /\ pc' = "listen")
       => IndependentUpdate(MessageOf(data), MessageOf(reply'),
                            cache, cache')]_vars

\* The query for d was forwarded and learned while the entry learned for b
\* is still held.
C12_Witness ==
    /\ pc = "listen"
    /\ data = QA_d
    /\ reply = Rd_A
    /\ CacheGet(cache, NameB) = <<1, 2, 3, 4>>
    /\ CacheGetTtl(cache, NameB) > 0
    /\ CacheGet(cache, NameD) = <<5, 6, 7, 8>>
    /\ CacheGetTtl(cache, NameD) = 2

\* C13: a query whose first question is not of type A is forwarded as it
\* is, with no cache read (so also while the backend is down), whatever the
\* cache holds for the name and whatever questions follow the first.
C13_FirstQuestionRoutes ==
    [][(/\ HandleStep
        /\ Readable(MessageOf(data))
        /\ MessageOf(data).val.Questions[1].QTYPE # RR_type_A)
       => (/\ pc' = "forward"
           /\ toUpstream' = <<data>>
           /\ toClient' = <<>>
           /\ cache' = cache)]_vars

\* The query NS-then-A for the blocked name was forwarded while the backend
\* was down.
C13_Witness ==
    /\ data = QNS_a_then_A
    /\ pc = "forward"
    /\ route = "forward"
    /\ toUpstream = <<QNS_a_then_A>>
    /\ ~backendUp
    /\ CacheGet(cache, NameA) = Sentinel

\* The TTL the spec puts in a synthesized answer: the remaining TTL of the
\* entry, 0 for an entry with no expiry.
ExpectedTtl(c, name) ==
    IF CacheGetTtl(c, name) = -1 THEN <<0, 0, 0, 0>>
    ELSE ToBytes(CacheGetTtl(c, name), 4)

\* C14: the Answer RR of a response synthesized from the cache carries, as
\* its 32-bit TTL, the remaining TTL of the entry, and 0 when the entry has
\* no expiry.
C14_AnswerTtl ==
    [][(/\ HandleStep
        /\ backendUp
        /\ IsAQuery(data)
        /\ CacheGet(cache, QueryName(data)) # None
        /\ CacheGet(cache, QueryName(data)) # Sentinel)
       => (/\ Len(toClient') = 1
           /\ Len(toClient'[1]) = 28
           /\ SubSeq(toClient'[1], 19, 22)
                  = ExpectedTtl(cache, QueryName(data)))]_vars

\* C17: an A query whose question names the blocked name through a
\* compression pointer is looked up under that name, as the query that
\* spells the name out is: it gets the Blocked response.
C17_PointerNameIsKey ==
    [][(/\ HandleStep
        /\ backendUp
        /\ data = QA_ptr_a
        /\ CacheGet(cache, NameA) = Sentinel)
       => (/\ Len(toClient') = 1
           /\ IsBlocked(toClient'[1], data)
           /\ toUpstream' = <<>>)]_vars

\* The NSCOUNT and ARCOUNT fields of a response of at least 12 bytes.
RespNSCOUNT(r) == SubSeq(r, 9, 10)
RespARCOUNT(r) == SubSeq(r, 11, 12)

\* C18: a synthesized response (Answer or Blocked) emits no question, no
\* authority and no additional record, and one answer on the Answer route
\* only; its four counts say so, whatever counts the query carried.
C18_CountsMatchSections ==
    [][(HandleStep /\ route' \in {"answer", "blocked"} /\ Len(toClient') = 1)
       => (/\ RespQDCOUNT(toClient'[1]) = <<0, 0>>
           /\ RespANCOUNT(toClient'[1])
                  = (IF route' = "answer" THEN <<0, 1>> ELSE <<0, 0>>)
           /\ RespNSCOUNT(toClient'[1]) = <<0, 0>>
           /\ RespARCOUNT(toClient'[1]) = <<0, 0>>)]_vars

\* The codec has parsed the bytes of the message.
Parsed == cpc \in {"parsed", "named"}

\* C15: parsing the bytes of a valid Message gives the Message back: the
\* same header fields and the same sections in the same order.
C15_RoundTrip ==
    Parsed => (parsed.exc = "" /\ parsed.val = InputMessage(input))

\* C16: get_QNAME of the uncompressed wire encoding of a name of labels of
\* 1 to 63 nonzero bytes returns the name as the dotted string.
C16_NameRoundTrip ==
    cpc = "named"
    => /\ parsed.val.Questions[1].QNAME = EncodeName(input.name)
       /\ decoded = Ok(JoinDots(input.name))

\* The name of three labels, the longest of 63 bytes, was decoded.
C16_Witness ==
    /\ cpc = "named"
    /\ input.name = <<<<98, 99>>, Label63, <<97>>>>
    /\ decoded.exc = ""
    /\ Len(decoded.val) = 68

\* The records of a message, section after section.
RecordsOf(m) == m.Answers \o m.Authorities \o m.Additionals

\* C19: every record Message.from_bytes produces has RDATA of RDLENGTH
\* bytes, from 0 up, and its fields concatenate to the bytes the record
\* occupies in the message.
C19_RdataLength ==
    (Parsed /\ parsed.exc = "")
    => \A k \in 1..Len(RecordsOf(parsed.val)) :
          /\ Len(RecordsOf(parsed.val)[k].RDATA)
                = IntFromHex(RecordsOf(parsed.val)[k].RDLENGTH)
          /\ ResourceRecordGetBytes(RecordsOf(parsed.val)[k])
                = ResourceRecordGetBytes(RecordsOf(InputMessage(input))[k])

\* The message has records, all with RDATA.
HasData(i) ==
    /\ Len(i.an) > 0
    /\ \A k \in 1..Len(i.an) : Len(i.an[k].RDATA) > 0

\* C20: for a record named by labels and a zero byte, by a pointer alone or
\* by labels and a pointer, _parse_rr takes TYPE from the first byte after
\* the name: the record parsed has the TYPE, TTL, RDLENGTH and RDATA of the
\* record written.
C20_TypeAfterName ==
    (Parsed /\ HasData(input))
    => /\ parsed.exc = ""
       /\ \A k \in 1..Len(input.an) :
             /\ parsed.val.Answers[k].TYPE = input.an[k].TYPE
             /\ parsed.val.Answers[k].TTL = input.an[k].TTL
             /\ parsed.val.Answers[k].RDLENGTH = input.an[k].RDLENGTH
             /\ parsed.val.Answers[k].RDATA = input.an[k].RDATA

\* The response holds the wire name qname from offset 12 on, and its last
\* 16 bytes are a record with 4 bytes of RDATA named by the pointer to
\* offset 12, which lies after that name.
PointerReachesName(response, qname) ==
    /\ Len(response) >= 12 + Len(qname) + 16
    /\ SubSeq(response, 13, 12 + Len(qname)) = qname
    /\ SubSeq(response, Len(response) - 15, Len(response) - 14) = Ptr

\* C21: in the Answer response synthesized from the cache the pointer C0 0C
\* that names the Answer record leads to the name of the question: the
\* labels of that name stand at offset 12 of the response, before the
\* pointer.
C21_PointerReachesName ==
    [][(/\ HandleStep
        /\ backendUp
        /\ IsAQuery(data)
        /\ CacheGet(cache, QueryName(data)) # None
        /\ CacheGet(cache, QueryName(data)) # Sentinel)
       => (/\ Len(toClient') = 1
           /\ PointerReachesName(toClient'[1],
                                 MessageOf(data).val.Questions[1].QNAME))]_vars

\* C22: whenever keys expire between the reads of one A-query handling,
\* once the lookup has returned an address v the handler completes and
\* sends one Answer whose RDATA is v and whose TTL fits 32 bits unsigned.
C22_ExpiryNeverBreaksAnswer ==
    (hpc = "done" /\ hRdata # None)
    => /\ exc = ""
       /\ pc = "listen"
       /\ FitsBytes(hTtl, 4)
       /\ Len(toClient) = 1
       /\ Len(toClient[1]) >= 16
       /\ SubSeq(toClient[1], Len(toClient[1]) - 3, Len(toClient[1]))
             = hRdata

\* C23: every cache write made while a forwarded query is handled is made
\* under the name of that query's first question: whatever the upstream
\* reply names in its own question section, the entry of every other name
\* is after the reply what it was before.
C23_WritesUnderQueryName ==
    [][(ForwardStep /\ Readable(MessageOf(data)))
       => \A n \in (DOMAIN cache \cup DOMAIN cache') \ {QueryName(data)} :
             /\ CacheGet(cache', n) = CacheGet(cache, n)
             /\ CacheGetTtl(cache', n) = CacheGetTtl(cache, n)]_vars

\* C24: handling a query in the Answer or in the Blocked branch leaves the
\* cache as it was, the value and the remaining TTL of every entry, and
\* sends nothing to the upstream resolver.
C24_CacheAnswersLeaveCache ==
    [][(HandleStep /\ route' \in {"answer", "blocked"})
       => (cache' = cache /\ toUpstream' = <<>>)]_vars

\* A query for the blocked name was answered while a learned entry was
\* running towards its expiry.
C24_Witness ==
    /\ pc = "listen"
    /\ route = "blocked"
    /\ Len(toClient) = 1
    /\ toUpstream = <<>>
    /\ CacheGet(cache, NameA) = Sentinel
    /\ CacheGetTtl(cache, NameB) > 0

====
